---------------------------- MODULE Spec2Model ----------------------------
(***************************************************************************)
(* Model of etc/hadoop/rack.py, the rack resolver of the Hadoop topology   *)
(* script interface.  The script is Python 2 (it uses the print            *)
(* statement): it builds the dict `rack` from a literal and, when run as a *)
(* script, prints "/" + rack.get(sys.argv[1], "rack-default").             *)
(*                                                                         *)
(* A string is modelled as the sequence of its characters, so that string  *)
(* concatenation, the first character of a string and an embedded newline  *)
(* are what they are in the program.  A run is modelled at the grain of    *)
(* the evaluation order of line 17: subscript, get, add, print item,       *)
(* print newline, exit.                                                    *)
(***************************************************************************)
EXTENDS Naturals, Sequences, FiniteSets

VARIABLES
    argv,         \* sys.argv of the running process; argv[1] is the script name
    rack,         \* the module global `rack` (a dict: a function on its keys)
    pc,           \* where the process is in line 16-17
    tos,          \* the value on top of the evaluation stack
    lookups,      \* how many times rack.get has been called in this process
    stdout,       \* the characters written to standard output by this process
    stderr,       \* the lines written to standard error by this process
    exit_status,  \* <<>> while the process runs, <<n>> once it exited with n
    prev          \* what the caller captured of the previous process

vars == <<argv, rack, pc, tos, lookups, stdout, stderr, exit_status, prev>>

(***************************************************************************)
(* Bound of the model: the largest number of command-line arguments that   *)
(* follow the script name.                                                 *)
(***************************************************************************)
MaxArgs == 2

(***************************************************************************)
(* The string literals of the program.                                     *)
(***************************************************************************)
rack_1 == <<"r","a","c","k","-","1">>

rack_default == <<"r","a","c","k","-","d","e","f","a","u","l","t">>

\* A table entry that names the default rack.
rack_2_AsDefault == rack_default

rack_2 == <<"r","a","c","k","-","2">>

slash == <<"/">>

\* The items of the dict literal of lines 5-13, in source order.
rack_literal ==
    << << <<"c","o","m","p","u","t","e","-","1","3","-","1","0",".","l","o","c","a","l">>, rack_1 >>,
       << <<"c","o","m","p","u","t","e","-","1","3","-","1","2",".","l","o","c","a","l">>, rack_1 >>,
       << <<"c","o","m","p","u","t","e","-","1","3","-","1","4",".","l","o","c","a","l">>, rack_2 >>,
       << <<"c","o","m","p","u","t","e","-","1","3","-","1","6",".","l","o","c","a","l">>, rack_2 >>,
       << <<"1","9","2",".","1","6","8",".","3","2",".","9","2">>, rack_1 >>,
       << <<"1","9","2",".","1","6","8",".","3","2",".","9","4">>, rack_1 >>,
       << <<"1","9","2",".","1","6","8",".","3","2",".","9","6">>, rack_2 >>,
       << <<"1","9","2",".","1","6","8",".","3","2",".","9","8">>, rack_2 >> >>

(***************************************************************************)
(* Python's semantics, as far as the program uses them.                    *)
(***************************************************************************)

\* A dict display {k1: v1, ...}: the items are inserted in order, so that the
\* last item of a repeated key wins.
PyDict(items) ==
    [k \in {items[i][1] : i \in DOMAIN items} |->
        items[CHOOSE i \in DOMAIN items :
                 /\ items[i][1] = k
                 /\ \A j \in DOMAIN items : j > i => items[j][1] # k][2]]

\* The whitespace characters str.strip() removes, among those of the model.
IsSpace(c) == c \in {" ", "\n"}

RECURSIVE LStrip(_)
LStrip(s) == IF s # <<>> /\ IsSpace(Head(s)) THEN LStrip(Tail(s)) ELSE s

RECURSIVE RStrip(_)
RStrip(s) ==
    IF s # <<>> /\ IsSpace(s[Len(s)]) THEN RStrip(SubSeq(s, 1, Len(s) - 1)) ELSE s

\* dict.setdefault(k, default): as get, but inserts the default for a missing key.
dict_setdefault(d, k, default) ==
    IF k \in DOMAIN d
    THEN [value |-> d[k], dict |-> d]
    ELSE [value |-> default,
          dict  |-> [x \in DOMAIN d \cup {k} |-> IF x \in DOMAIN d THEN d[x] ELSE default]]

\* d.get(k.strip(), default): a lookup that forgives surrounding whitespace.
dict_get_stripped(d, k, default) ==
    IF RStrip(LStrip(k)) \in DOMAIN d
    THEN [value |-> d[RStrip(LStrip(k))], dict |-> d]
    ELSE [value |-> default, dict |-> d]

\* d.get(k, default): the value returned, and the dict as the call leaves it.
\* Keys are compared as whole strings, character by character.
dict_get(d, k, default) ==
    IF k \in DOMAIN d
    THEN [value |-> d[k], dict |-> d]
    ELSE [value |-> default, dict |-> d]

\* The index that names the last element of sys.argv.
ArgIndex_Last == Len(argv) - 1

\* The index line 17 subscripts sys.argv with.
ArgIndex == 1

\* Exactly one argument is accepted.
IndexInRange_Exact(seq, i) == Len(seq) = i + 1

\* Whether seq[i] exists, for a Python (0-based, non-negative) index i.
IndexInRange(seq, i) == i < Len(seq)

\* seq[i] with the index taken as 1-based.
PyIndex_OneBased(seq, i) == seq[i]

\* seq[i] for a Python (0-based) index i that is in range.
PyIndex(seq, i) == seq[i + 1]

\* b + a: the operands the wrong way round.
BINARY_ADD_Swapped(a, b) == b \o a

\* a + b on two str objects.
BINARY_ADD(a, b) == a \o b

\* What the interpreter writes to standard error for the uncaught IndexError.
IndexErrorTraceback ==
    << "Traceback (most recent call last):",
       "IndexError: list index out of range" >>

(***************************************************************************)
(* The inputs of the model.  The first argument ranges over every key of   *)
(* the table and over strings that are not keys: the empty string, a key   *)
(* in upper case, keys with leading and trailing whitespace, a key         *)
(* followed by a newline, an unknown host name, and a rack value.          *)
(***************************************************************************)
ScriptName == <<"r","a","c","k",".","p","y">>

Addresses ==
    {rack_literal[i][1] : i \in DOMAIN rack_literal}
    \cup { <<>>,
           <<"C","O","M","P","U","T","E","-","1","3","-","1","0",".","L","O","C","A","L">>,
           <<" ","1","9","2",".","1","6","8",".","3","2",".","9","2">>,
           <<"c","o","m","p","u","t","e","-","1","3","-","1","4",".","l","o","c","a","l"," ">>,
           <<"1","9","2",".","1","6","8",".","3","2",".","9","6","\n">>,
           <<"u","n","k","n","o","w","n","-","h","o","s","t",".","e","x","a","m","p","l","e">>,
           <<"r","a","c","k","-","1">> }

\* The arguments that may follow the first one.
ExtraArgs ==
    { <<"c","o","m","p","u","t","e","-","1","3","-","1","0",".","l","o","c","a","l">>,
      <<"1","9","2",".","1","6","8",".","3","2",".","9","8">>,
      <<"u","n","k","n","o","w","n","-","h","o","s","t",".","e","x","a","m","p","l","e">> }

SeqsUpTo(S, n) == UNION {[1..m -> S] : m \in 0..n}

\* Every sys.argv of the model: the script name alone, or followed by a first
\* argument and at most MaxArgs - 1 further ones.
Argvs ==
    {<<ScriptName>>}
    \cup {<<ScriptName, a>> \o t : a \in Addresses, t \in SeqsUpTo(ExtraArgs, MaxArgs - 1)}

\* The caller has not run the resolver yet.
NoRun == [argc |-> 0, address |-> <<>>, stdout |-> <<>>, stderr |-> <<>>, status |-> <<>>]

\* What the caller keeps of the process that just exited.
Captured ==
    [argc    |-> Len(argv),
     address |-> IF Len(argv) > 1 THEN argv[2] ELSE <<>>,
     stdout  |-> stdout,
     stderr  |-> stderr,
     status  |-> exit_status]

(***************************************************************************)
(* A process.  Lines 1-13 have run when it reaches line 16: sys is         *)
(* imported and `rack` is bound to the dict of the literal.                *)
(***************************************************************************)
Started(a) ==
    /\ argv = a
    /\ rack = PyDict(rack_literal)
    /\ pc = "main"
    /\ tos = <<>>
    /\ lookups = 0
    /\ stdout = <<>>
    /\ stderr = <<>>
    /\ exit_status = <<>>

Init ==
    /\ \E a \in Argvs : Started(a)
    /\ prev = NoRun

\* Line 16: the script is run as a script, so __name__ is "__main__".
Main ==
    /\ pc = "main"
    /\ pc' = "subscr"
    /\ UNCHANGED <<argv, rack, tos, lookups, stdout, stderr, exit_status, prev>>

\* The lines that arrive on standard input: the caller writes none.
StdinLines == {}

\* The address is read from standard input: the process waits for a line.
Subscript_ReadsStdin ==
    /\ pc = "subscr"
    /\ \E line \in StdinLines :
          /\ tos' = line
          /\ pc' = "get"
    /\ UNCHANGED <<argv, rack, lookups, stdout, stderr, exit_status, prev>>

\* "/" is written before the argument is looked at.
Subscript_PrintsFirst ==
    /\ pc = "subscr"
    /\ IF IndexInRange(argv, ArgIndex)
       THEN /\ tos' = PyIndex(argv, ArgIndex)
            /\ pc' = "get"
            /\ UNCHANGED <<stdout, stderr, exit_status>>
       ELSE /\ stdout' = stdout \o slash
            /\ stderr' = stderr \o IndexErrorTraceback
            /\ exit_status' = <<1>>
            /\ pc' = "exited"
            /\ UNCHANGED tos
    /\ UNCHANGED <<argv, rack, lookups, prev>>

\* Line 17, sys.argv[1]: the first argument, or an uncaught IndexError, which
\* ends the process with a traceback on standard error and status 1.
Subscript ==
    /\ pc = "subscr"
    /\ IF IndexInRange(argv, ArgIndex)
       THEN /\ tos' = PyIndex(argv, ArgIndex)
            /\ pc' = "get"
            /\ UNCHANGED <<stderr, exit_status>>
       ELSE /\ stderr' = stderr \o IndexErrorTraceback
            /\ exit_status' = <<1>>
            /\ pc' = "exited"
            /\ UNCHANGED tos
    /\ UNCHANGED <<argv, rack, lookups, stdout, prev>>

\* Line 17, rack.get(<argument>, "rack-default").
Get ==
    /\ pc = "get"
    /\ LET r == dict_get(rack, tos, rack_default)
       IN  /\ tos' = r.value
           /\ rack' = r.dict
    /\ lookups' = lookups + 1
    /\ pc' = "add"
    /\ UNCHANGED <<argv, stdout, stderr, exit_status, prev>>

\* Line 17, "/" + <rack>.
Add ==
    /\ pc = "add"
    /\ tos' = BINARY_ADD(slash, tos)
    /\ pc' = "print_item"
    /\ UNCHANGED <<argv, rack, lookups, stdout, stderr, exit_status, prev>>

\* Line 17, the print statement writes its one item.
PrintItem ==
    /\ pc = "print_item"
    /\ stdout' = stdout \o tos
    /\ pc' = "print_newline"
    /\ UNCHANGED <<argv, rack, tos, lookups, stderr, exit_status, prev>>

\* print <item>, : a trailing comma, which suppresses the newline.
PrintNewline_Suppressed ==
    /\ pc = "print_newline"
    /\ pc' = "exit"
    /\ UNCHANGED <<argv, rack, tos, lookups, stdout, stderr, exit_status, prev>>

\* Line 17, the print statement ends the line.
PrintNewline ==
    /\ pc = "print_newline"
    /\ stdout' = stdout \o <<"\n">>
    /\ pc' = "exit"
    /\ UNCHANGED <<argv, rack, tos, lookups, stderr, exit_status, prev>>

\* The end of the file is reached: the interpreter exits with status 0.
Exit ==
    /\ pc = "exit"
    /\ exit_status' = <<0>>
    /\ pc' = "exited"
    /\ UNCHANGED <<argv, rack, tos, lookups, stdout, stderr, prev>>

\* One step of the running process.
Step ==
    \/ Main
    \/ Subscript
    \/ Get
    \/ Add
    \/ PrintItem
    \/ PrintNewline
    \/ Exit

\* The caller, having captured the output of a process that exited, starts the
\* script again as a fresh process with arguments of its choice.
Spawn ==
    /\ pc = "exited"
    /\ prev' = Captured
    /\ \E a \in Argvs :
          /\ argv' = a
          /\ rack' = PyDict(rack_literal)
          /\ pc' = "main"
          /\ tos' = <<>>
          /\ lookups' = 0
          /\ stdout' = <<>>
          /\ stderr' = <<>>
          /\ exit_status' = <<>>

Next == Step \/ Spawn

\* The resolver as its caller uses it: one process after the other.
Spec == Init /\ [][Next]_vars

\* One process from its start to its exit.  The interpreter runs the script's
\* statements one after the other and none of them waits: weak fairness of Step.
RunNext == Step

FairRun == Init /\ [][RunNext]_vars /\ WF_vars(Step)

(***************************************************************************)
(* The properties.                                                         *)
(***************************************************************************)
Exited == pc = "exited"

HasAddress == Len(argv) > 1

\* The first command-line argument (Python's sys.argv[1]).
Address == argv[2]

\* The number of newline characters in a string.
RECURSIVE Newlines(_)
Newlines(s) ==
    IF s = <<>> THEN 0 ELSE (IF Head(s) = "\n" THEN 1 ELSE 0) + Newlines(Tail(s))

\* C1: a run whose argument is a key of the rack table (which has 8 keys) has
\* printed, when it exits, exactly "/" followed by the value the table holds
\* for that key, as one line; in particular the spec's four sample addresses
\* give /rack-1, /rack-2, /rack-1 and /rack-2.
C1_KeyPrintsItsRack ==
    /\ Cardinality(DOMAIN rack) = 8
    /\ (Exited /\ HasAddress /\ Address \in DOMAIN rack) =>
          /\ stdout = <<"/">> \o rack[Address] \o <<"\n">>
          /\ Address = <<"c","o","m","p","u","t","e","-","1","3","-","1","0",".","l","o","c","a","l">>
                => stdout = <<"/","r","a","c","k","-","1","\n">>
          /\ Address = <<"c","o","m","p","u","t","e","-","1","3","-","1","4",".","l","o","c","a","l">>
                => stdout = <<"/","r","a","c","k","-","2","\n">>
          /\ Address = <<"1","9","2",".","1","6","8",".","3","2",".","9","4">>
                => stdout = <<"/","r","a","c","k","-","1","\n">>
          /\ Address = <<"1","9","2",".","1","6","8",".","3","2",".","9","8">>
                => stdout = <<"/","r","a","c","k","-","2","\n">>

\* A run with the key 192.168.32.96 has exited, after one with the key
\* compute-13-12.local (neither is one of the spec's samples).
C1_Witness ==
    /\ Exited /\ HasAddress
    /\ Address = <<"1","9","2",".","1","6","8",".","3","2",".","9","6">>
    /\ stdout = <<"/","r","a","c","k","-","2","\n">>
    /\ prev.address = <<"c","o","m","p","u","t","e","-","1","3","-","1","2",".","l","o","c","a","l">>
    /\ prev.stdout = <<"/","r","a","c","k","-","1","\n">>

\* C2: a run whose argument is not a key of the rack table (the empty string,
\* a key in another case or with surrounding whitespace included) has printed
\* exactly "/rack-default" when it exits, has written nothing to standard
\* error, and exits with status 0.
C2_UnknownPrintsDefault ==
    (Exited /\ HasAddress /\ Address \notin DOMAIN rack) =>
        /\ stdout = <<"/","r","a","c","k","-","d","e","f","a","u","l","t","\n">>
        /\ stderr = <<>>
        /\ exit_status = <<0>>

\* A run with a key padded by a trailing blank has exited with the default
\* rack, after a run with the empty string that did so too.
C2_Witness ==
    /\ Exited /\ HasAddress
    /\ Address = <<"c","o","m","p","u","t","e","-","1","3","-","1","4",".","l","o","c","a","l"," ">>
    /\ stdout = <<"/","r","a","c","k","-","d","e","f","a","u","l","t","\n">>
    /\ prev.argc = 2 /\ prev.address = <<>>
    /\ prev.stdout = <<"/","r","a","c","k","-","d","e","f","a","u","l","t","\n">>

\* C3: in a run with no argument nothing is ever written to standard output,
\* no lookup is made, and the run ends with a non-zero exit status.
C3_NoArgumentFails ==
    ~HasAddress =>
        /\ stdout = <<>>
        /\ lookups = 0
        /\ pc \in {"main", "subscr", "exited"}
        /\ Exited => (exit_status # <<>> /\ exit_status[1] # 0)

\* A run with no argument has ended.
C3_Witness ==
    /\ Exited /\ ~HasAddress
    /\ exit_status = <<1>>
    /\ stderr # <<>>

\* C4: when a run that wrote output exits, the line it printed (its output
\* up to the newline that ends it) is not empty, starts with "/" and holds
\* no newline, whatever the argument.
C4_ResultShape ==
    (Exited /\ stdout # <<>>) =>
        LET result == SubSeq(stdout, 1, Len(stdout) - 1)
        IN  /\ stdout[Len(stdout)] = "\n"
            /\ result # <<>>
            /\ result[1] = "/"
            /\ \A i \in DOMAIN result : result[i] # "\n"

\* A run whose argument itself holds a newline has printed its line.
C4_Witness ==
    /\ Exited /\ HasAddress
    /\ Address = <<"1","9","2",".","1","6","8",".","3","2",".","9","6","\n">>
    /\ stdout # <<>>

\* C5: a process given the same address as the process before it ends with
\* the same standard output, standard error and exit status as that one.
C5_SameAddressSameOutput ==
    (Exited /\ HasAddress /\ prev.argc > 1 /\ prev.address = Address) =>
        /\ stdout = prev.stdout
        /\ stderr = prev.stderr
        /\ exit_status = prev.status

\* Two processes in a row were given the same key, and both printed its rack.
C5_Witness ==
    /\ Exited /\ HasAddress
    /\ prev.argc > 1 /\ prev.address = Address
    /\ Address = <<"c","o","m","p","u","t","e","-","1","3","-","1","6",".","l","o","c","a","l">>
    /\ stdout = <<"/","r","a","c","k","-","2","\n">>

\* C6: every run reaches its exit, with or without an argument, and until
\* then it always has a step to take.
C6_Terminates ==
    /\ [](~Exited => ENABLED Step)
    /\ <>Exited

\* A run without an argument has reached its exit.
C6_Witness ==
    /\ Exited /\ ~HasAddress
    /\ exit_status # <<>>

\* C7: in every state of every process the rack table is the dict of the
\* literal: no step, the lookup of a missing key included, changes it.
C7_TableNeverModified ==
    rack = PyDict(rack_literal)

\* A process has looked up an address that is not a key, and has exited.
C7_Witness ==
    /\ Exited /\ HasAddress
    /\ lookups = 1
    /\ Address \notin DOMAIN PyDict(rack_literal)

\* C8: nothing is written before the lookup; a run that exits with status 0
\* has made exactly one lookup and has written exactly one line, the result
\* followed by one newline; and a run that wrote output exits with status 0.
C8_OneLookupOneLine ==
    /\ lookups = 0 => stdout = <<>>
    /\ lookups <= 1
    /\ (Exited /\ exit_status = <<0>>) =>
          /\ lookups = 1
          /\ stdout = tos \o <<"\n">>
          /\ Newlines(stdout) = 1
          /\ Newlines(tos) = 0
    /\ (Exited /\ stdout # <<>>) => exit_status = <<0>>

\* A run has exited with status 0 after one lookup and one line.
C8_Witness ==
    /\ Exited /\ exit_status = <<0>>
    /\ lookups = 1
    /\ stdout = <<"/","r","a","c","k","-","1","\n">>

\* C9: the line a run printed is /rack-1, /rack-2 or /rack-default, and it
\* is /rack-default only when the argument is not a key of the table.
C9_ThreeRacks ==
    (Exited /\ stdout # <<>>) =>
        /\ stdout \in { <<"/","r","a","c","k","-","1","\n">>,
                        <<"/","r","a","c","k","-","2","\n">>,
                        <<"/","r","a","c","k","-","d","e","f","a","u","l","t","\n">> }
        /\ stdout = <<"/","r","a","c","k","-","d","e","f","a","u","l","t","\n">>
              => (HasAddress /\ Address \notin DOMAIN rack)

\* A run given a rack value as its address printed the default rack, after a
\* run that printed /rack-2.
C9_Witness ==
    /\ Exited /\ HasAddress
    /\ Address = <<"r","a","c","k","-","1">>
    /\ stdout = <<"/","r","a","c","k","-","d","e","f","a","u","l","t","\n">>
    /\ prev.stdout = <<"/","r","a","c","k","-","2","\n">>

\* C10: a run with more than one argument ends as the run before it that was
\* given its first argument alone: same output, status 0, nothing on
\* standard error.
C10_FirstArgumentDecides ==
    (Exited /\ Len(argv) > 2 /\ prev.argc = 2 /\ prev.address = Address) =>
        /\ stdout = prev.stdout
        /\ exit_status = prev.status
        /\ exit_status = <<0>>
        /\ stderr = <<>>

\* A run with a key of rack-1 followed by a key of rack-2 printed /rack-1, as
\* did the run before it with the first key alone.
C10_Witness ==
    /\ Exited /\ Len(argv) > 2
    /\ prev.argc = 2 /\ prev.address = Address
    /\ Address = <<"1","9","2",".","1","6","8",".","3","2",".","9","2">>
    /\ argv[3] = <<"1","9","2",".","1","6","8",".","3","2",".","9","8">>
    /\ stdout = <<"/","r","a","c","k","-","1","\n">>

=============================================================================
